---- MODULE Spec2Model ----
(***************************************************************************)
(* Model of grab_burst.py: timestamp parsing and rendering, URL time       *)
(* extraction, and the run of main() through its external calls.           *)
(*                                                                         *)
(* Strings are sequences of one-character strings.  A Python float is a    *)
(* record [k, v]: k = "fin" with v the value in units of 1/Scale second,   *)
(* k = "inf" with v the sign, k = "nan"; None is k = "none" and a raised   *)
(* exception is k = "raise".                                               *)
(***************************************************************************)
EXTENDS Integers, Sequences, FiniteSets, TLC

VARIABLES
    pc,            \* where the run is
    url,           \* args.url
    start,         \* args.start: [some, s], some = FALSE for None
    count,         \* args.count
    step,          \* args.step
    outdir,        \* whether --outdir was given
    base_seconds,  \* None until main resolves it
    cwd,           \* the files video.* of the working directory
    downloaded,    \* the file the successful yt-dlp download of this run wrote
    video_file,    \* what download_video returned
    calls,         \* the external processes run so far, in order
    idx,           \* frames extracted so far
    err,           \* the exception that ended the run
    fn_arg,        \* argument of a function called on its own
    fn_ret         \* and its result

vars == <<pc, url, start, count, step, outdir, base_seconds, cwd, downloaded,
          video_file, calls, idx, err, fn_arg, fn_ret>>

(* ------------------------------ bounds -------------------------------- *)

\* Longest enumerated timestamp string handed to hhmmss_to_seconds.
MaxTsLen == 4
\* Largest --count of a run.
MaxCount == 2
\* Rendered times are drawn from this many steps of two grid units below one minute.
MaxTimeSpread == 10

(* --------------------------- float values ----------------------------- *)

\* Units per second of the fixed-point grid standing for float seconds.
Scale == 10000

Fin(n) == [k |-> "fin", v |-> n]
Inf == [k |-> "inf", v |-> 1]
NegInf == [k |-> "inf", v |-> -1]
NaN == [k |-> "nan", v |-> 0]
None == [k |-> "none", v |-> 0]
Raise == [k |-> "raise", v |-> 0]

\* float + float
FAdd(a, b) ==
    CASE a.k = "nan" \/ b.k = "nan" -> NaN
      [] a.k = "inf" /\ b.k = "inf" -> IF a.v = b.v THEN a ELSE NaN
      [] a.k = "inf" -> a
      [] b.k = "inf" -> b
      [] OTHER -> Fin(a.v + b.v)

\* int * float
FMulInt(i, a) ==
    CASE a.k = "nan" -> NaN
      [] a.k = "inf" -> IF i = 0 THEN NaN ELSE IF i > 0 THEN a ELSE [k |-> "inf", v |-> -a.v]
      [] OTHER -> Fin(i * a.v)

(* ------------------------------ strings ------------------------------- *)

DigitSeq == <<"0", "1", "2", "3", "4", "5", "6", "7", "8", "9">>
Digit == {DigitSeq[i] : i \in 1..10}
DigitVal(c) == (CHOOSE i \in 1..10 : DigitSeq[i] = c) - 1

\* The whitespace of str.strip() and of \s that the inputs can carry.
WS == {" ", "\t", "\n"}

RECURSIVE LStrip(_, _)
LStrip(s, cs) == IF s # <<>> /\ Head(s) \in cs THEN LStrip(Tail(s), cs) ELSE s

RECURSIVE RStrip(_, _)
RStrip(s, cs) ==
    IF s # <<>> /\ s[Len(s)] \in cs THEN RStrip(SubSeq(s, 1, Len(s) - 1), cs) ELSE s

\* str.strip()
Strip(s) == RStrip(LStrip(s, WS), WS)

\* Index of the first element of s in cs, 0 when there is none.
Find(s, cs) ==
    IF \E i \in 1..Len(s) : s[i] \in cs
    THEN CHOOSE i \in 1..Len(s) : s[i] \in cs /\ \A j \in 1..(i - 1) : s[j] \notin cs
    ELSE 0

\* str.split(c)
RECURSIVE Split(_, _)
Split(s, c) ==
    LET i == Find(s, {c})
    IN  IF i = 0 THEN <<s>>
        ELSE <<SubSeq(s, 1, i - 1)>> \o Split(SubSeq(s, i + 1, Len(s)), c)

\* str.split(c, 1)
Split1(s, c) ==
    LET i == Find(s, {c})
    IN  IF i = 0 THEN <<s>> ELSE <<SubSeq(s, 1, i - 1), SubSeq(s, i + 1, Len(s))>>

\* int() of a string of decimal digits
RECURSIVE DigitsToInt(_)
DigitsToInt(ds) ==
    IF ds = <<>> THEN 0
    ELSE DigitsToInt(SubSeq(ds, 1, Len(ds) - 1)) * 10 + DigitVal(ds[Len(ds)])

RECURSIVE Pow10(_)
Pow10(n) == IF n <= 0 THEN 1 ELSE 10 * Pow10(n - 1)

RECURSIVE Log10(_)
Log10(n) == IF n < 10 THEN 0 ELSE 1 + Log10(n \div 10)

\* The fraction digits the grid holds.
FracDigits == Log10(Scale)

\* float() of digits[.digits], in grid units (fraction digits past the grid dropped)
DecimalToUnits(s) ==
    LET p  == Split1(s, ".")
        ip == DigitsToInt(p[1])
        fs == IF Len(p) = 2 THEN p[2] ELSE <<>>
        fk == IF Len(fs) > FracDigits THEN SubSeq(fs, 1, FracDigits) ELSE fs
    IN  ip * Scale + DigitsToInt(fk) * Pow10(FracDigits - Len(fk))

\* str(n) for n >= 0
RECURSIVE IntToDigits(_)
IntToDigits(n) ==
    IF n < 10 THEN <<DigitSeq[n + 1]>>
    ELSE IntToDigits(n \div 10) \o <<DigitSeq[(n % 10) + 1]>>

\* format n with width w, zero filled ("{n:0wd}")
RECURSIVE ZeroPad(_, _)
ZeroPad(ds, w) == IF Len(ds) >= w THEN ds ELSE ZeroPad(<<"0">> \o ds, w)

FmtInt(n, w) ==
    IF n < 0 THEN <<"-">> \o ZeroPad(IntToDigits(-n), w - 1)
    ELSE ZeroPad(IntToDigits(n), w)

(* --------------------------- regular expressions ---------------------- *)

Cls(S) == [op |-> "cls", cs |-> S, kids |-> <<>>, lo |-> 0, hi |-> 0]
Cat(ks) == [op |-> "cat", cs |-> {}, kids |-> ks, lo |-> 0, hi |-> 0]
Alt(ks) == [op |-> "alt", cs |-> {}, kids |-> ks, lo |-> 0, hi |-> 0]
\* r{lo,hi}; hi = -1 is unbounded
Rep(r, lo, hi) == [op |-> "rep", cs |-> {}, kids |-> <<r>>, lo |-> lo, hi |-> hi]
Opt(r) == Rep(r, 0, 1)
Star(r) == Rep(r, 0, -1)
Plus(r) == Rep(r, 1, -1)

Upper(c) ==
    CASE c = "m" -> "M" [] c = "i" -> "I" [] c = "n" -> "N" [] c = "s" -> "S"
      [] c = "e" -> "E" [] c = "c" -> "C" [] c = "o" -> "O" [] c = "d" -> "D"
      [] c = "f" -> "F" [] c = "a" -> "A" [] c = "t" -> "T" [] c = "y" -> "Y"
      [] OTHER -> c

\* a literal under re.IGNORECASE
LitI(s) == Cat([i \in 1..Len(s) |-> Cls({s[i], Upper(s[i])})])

RECURSIVE Ends(_, _, _), EndsCat(_, _, _, _), EndsRep(_, _, _, _, _)
\* The positions where a match of r that starts at a position of I can end.
Ends(r, s, I) ==
    CASE r.op = "cls" -> {i + 1 : i \in {j \in I : j < Len(s) /\ s[j + 1] \in r.cs}}
      [] r.op = "cat" -> EndsCat(r.kids, 1, s, I)
      [] r.op = "alt" -> UNION {Ends(r.kids[n], s, I) : n \in 1..Len(r.kids)}
      [] r.op = "rep" -> EndsRep(r.kids[1], r.lo, IF r.hi < 0 THEN Len(s) + r.lo ELSE r.hi, s, I)

EndsCat(ks, n, s, I) ==
    IF n > Len(ks) \/ I = {} THEN I ELSE EndsCat(ks, n + 1, s, Ends(ks[n], s, I))

EndsRep(r, lo, hi, s, I) ==
    IF I = {} THEN {}
    ELSE IF hi = 0 THEN (IF lo = 0 THEN I ELSE {})
    ELSE (IF lo = 0 THEN I ELSE {})
         \cup EndsRep(r, IF lo > 0 THEN lo - 1 ELSE 0, hi - 1, s, Ends(r, s, I))

\* pattern.match(s) of a pattern "^...$": $ also matches before a final newline
Matches(r, s) ==
    LET E == Ends(r, s, {0})
    IN  Len(s) \in E \/ (Len(s) > 0 /\ s[Len(s)] = "\n" /\ (Len(s) - 1) \in E)

\* The span <<a, b>> (s[a+1..b]) of group g in a match of pre g post; <<>> when
\* the group takes no part in any match.
GroupSpan(pre, g, post, s) ==
    LET n == Len(s)
        P == {q \in (0..n) \X (0..n) :
                /\ q[1] <= q[2]
                /\ q[1] \in Ends(pre, s, {0})
                /\ q[2] \in Ends(g, s, {q[1]})
                /\ Matches(post, SubSeq(s, q[2] + 1, n))}
    IN  IF P = {} THEN <<>> ELSE CHOOSE q \in P : TRUE

Group(pre, g, post, s) ==
    LET q == GroupSpan(pre, g, post, s)
    IN  IF q = <<>> THEN <<>> ELSE SubSeq(s, q[1] + 1, q[2])

(* -------------------------- time parsing ------------------------------ *)

D == Cls(Digit)
S0 == Star(Cls(WS))
Colon == Cls({":"})
Dot == Cls({"."})
\* \d+(?:\.\d+)?
Num == Cat(<<Plus(D), Opt(Cat(<<Dot, Plus(D)>>))>>)
\* s(?:ec(?:onds?)?)?
SecWord == Cat(<<LitI(<<"s">>), Opt(Cat(<<LitI(<<"e", "c">>), Opt(Cat(<<LitI(<<"o", "n", "d">>), Opt(LitI(<<"s">>))>>))>>))>>)
\* m(?:in)?
MinWord == Cat(<<LitI(<<"m">>), Opt(LitI(<<"i", "n">>))>>)

\* ^\s*(\d{1,2}:)?\d{1,2}:\d{1,2}(?:\.\d+)?\s*$
ts_hms == Cat(<<S0, Opt(Cat(<<Rep(D, 1, 2), Colon>>)), Rep(D, 1, 2), Colon, Rep(D, 1, 2), Opt(Cat(<<Dot, Plus(D)>>)), S0>>)
\* ^\s*(\d+)\s*m(?:in)?\s*(\d+(?:\.\d+)?)\s*s(?:ec(?:onds?)?)?\s*$
ts_ms == Cat(<<S0, Plus(D), S0, MinWord, S0, Num, S0, SecWord, S0>>)
\* ^\s*(\d+(?:\.\d+)?)\s*s\s*$
ts_suff == Cat(<<S0, Num, S0, LitI(<<"s">>), S0>>)
\* ^\s*\d+(?:\.\d+)?\s*$
ts_plain == Cat(<<S0, Num, S0>>)
\* ^\s*(\d+)\.(\d{1,2})\s*$
ts_dot_m_s == Cat(<<S0, Plus(D), Dot, Rep(D, 1, 2), S0>>)

\* int(h) * 3600 + int(m) * 60 + float(s) of the colon-separated parts
ClockValue(ts) ==
    LET raw   == Split(ts, ":")
        parts == [i \in 1..Len(raw) |-> Strip(raw[i])]
        h == IF Len(parts) = 3 THEN parts[1] ELSE <<"0">>
        m == IF Len(parts) = 3 THEN parts[2] ELSE parts[1]
        s == IF Len(parts) = 3 THEN parts[3] ELSE parts[2]
    IN  Fin(DigitsToInt(h) * 3600 * Scale + DigitsToInt(m) * 60 * Scale + DecimalToUnits(s))

\* int(m) * 60 + float(s) of the groups of ts_ms
VerboseValue(ts) ==
    LET m == Group(S0, Plus(D), Cat(<<S0, MinWord, S0, Num, S0, SecWord, S0>>), ts)
        s == Group(Cat(<<S0, Plus(D), S0, MinWord, S0>>), Num, Cat(<<S0, SecWord, S0>>), ts)
    IN  Fin(DigitsToInt(m) * 60 * Scale + DecimalToUnits(s))

\* float(group 1) of ts_suff
SuffixValue(ts) == Fin(DecimalToUnits(Group(S0, Num, Cat(<<S0, LitI(<<"s">>), S0>>), ts)))

\* float(ts)
PlainValue(ts) == Fin(DecimalToUnits(Strip(ts)))

\* int(m) * 60 + float(s) of the groups of ts_dot_m_s
DotValue(ts) ==
    LET m == Group(S0, Plus(D), Cat(<<Dot, Rep(D, 1, 2), S0>>), ts)
        s == Group(Cat(<<S0, Plus(D), Dot>>), Rep(D, 1, 2), S0, ts)
    IN  Fin(DigitsToInt(m) * 60 * Scale + DecimalToUnits(s))

\* hhmmss_to_seconds with the dotted minute.second form tried before the bare decimal
hhmmss_to_seconds_dot_first(ts0) ==
    LET ts == Strip(ts0)
    IN  CASE Matches(ts_hms, ts) -> ClockValue(ts)
          [] Matches(ts_ms, ts) -> VerboseValue(ts)
          [] Matches(ts_suff, ts) -> SuffixValue(ts)
          [] Matches(ts_dot_m_s, ts) -> DotValue(ts)
          [] Matches(ts_plain, ts) -> PlainValue(ts)
          [] OTHER -> Raise

hhmmss_to_seconds(ts0) ==
    LET ts == Strip(ts0)
    IN  IF Matches(ts_hms, ts) THEN ClockValue(ts)
        ELSE IF Matches(ts_ms, ts) THEN VerboseValue(ts)
        ELSE IF Matches(ts_suff, ts) THEN SuffixValue(ts)
        ELSE IF Matches(ts_plain, ts) THEN PlainValue(ts)
        ELSE IF Matches(ts_dot_m_s, ts) THEN DotValue(ts)
        ELSE Raise

(* ----------------------------- rendering ------------------------------ *)

Str(s) == [k |-> "str", s |-> s]
StrRaise == [k |-> "raise", s |-> <<>>]

\* Grid units per millisecond.
UnitsPerMs == Scale \div 1000

\* "{s:06.3f}" of s >= 0 grid units: rounded to the millisecond.  A value half
\* way between two milliseconds rounds by its binary expansion in Python and up
\* here; the inputs below hold no such value.
FmtSeconds(s) ==
    LET ms == (2 * s + UnitsPerMs) \div (2 * UnitsPerMs)
    IN  ZeroPad(IntToDigits(ms \div 1000), 2) \o <<".">> \o ZeroPad(IntToDigits(ms % 1000), 3)

\* math.floor raises on inf and nan
seconds_to_hhmmss_ms(x) ==
    IF x.k # "fin" THEN StrRaise
    ELSE LET whole == x.v \div Scale
             frac  == x.v - whole * Scale
             h == whole \div 3600
             m == (whole % 3600) \div 60
             s == (whole % 60) * Scale + frac
         IN  Str(RStrip(RStrip(FmtInt(h, 2) \o <<":">> \o FmtInt(m, 2) \o <<":">> \o FmtSeconds(s), {"0"}), {"."}))

(* ------------------------- URL time extraction ------------------------ *)

SchemeChars ==
    {"a", "b", "c", "d", "e", "f", "g", "h", "i", "j", "k", "l", "m", "n", "o", "p", "q",
     "r", "s", "t", "u", "v", "w", "x", "y", "z", "+", "-", "."} \cup Digit
Alpha == SchemeChars \ (Digit \cup {"+", "-", "."})

\* urlsplit: url without its scheme, when the text before the first ":" is one
DropScheme(u) ==
    LET i == Find(u, {":"})
    IN  IF i > 1 /\ u[1] \in Alpha /\ \A j \in 1..(i - 1) : u[j] \in SchemeChars
        THEN SubSeq(u, i + 1, Len(u))
        ELSE u

\* url.split('#', 1)[0], then the part after the first "?"
QueryOf(u) ==
    LET q == Split1(Split1(u, "#")[1], "?")
    IN  Str(IF Len(q) = 2 THEN q[2] ELSE <<>>)

\* _splitnetloc of the text r after "//": the netloc ends at the first of / ? #
NetlocOf(r) ==
    LET d == Find(r, {"/", "?", "#"})
    IN  IF d = 0 THEN r ELSE SubSeq(r, 1, d - 1)

\* urlsplit raises ValueError("Invalid IPv6 URL") on a netloc with one bracket
AfterNetloc(r, netloc) ==
    IF (Find(netloc, {"["}) > 0) # (Find(netloc, {"]"}) > 0) THEN StrRaise
    ELSE QueryOf(SubSeq(r, Len(netloc) + 1, Len(r)))

AfterScheme(u) ==
    IF Len(u) >= 2 /\ u[1] = "/" /\ u[2] = "/"
    THEN AfterNetloc(SubSeq(u, 3, Len(u)), NetlocOf(SubSeq(u, 3, Len(u))))
    ELSE QueryOf(u)

\* urlparse(url).query; "raise" for the netloc urlsplit rejects
UrlQuery(u0) == AfterScheme(DropScheme(u0))

\* value.replace('+', ' ')
PlusToSpace(s) == [i \in 1..Len(s) |-> IF s[i] = "+" THEN " " ELSE s[i]]

\* parse_qs(qs).get(name): the values of the fields name=value with a value
QueryValues(qs, name) ==
    LET fields == IF qs = <<>> THEN <<>> ELSE Split(qs, "&")
        nv(i)  == Split1(fields[i], "=")
        keep   == {i \in 1..Len(fields) :
                     Len(nv(i)) = 2 /\ Len(nv(i)[2]) > 0 /\ PlusToSpace(nv(i)[1]) = name}
    IN  [n \in 1..Cardinality(keep) |->
            PlusToSpace(nv(CHOOSE i \in keep : Cardinality({j \in keep : j <= i}) = n)[2])]

Lower(c) ==
    CASE c = "I" -> "i" [] c = "N" -> "n" [] c = "F" -> "f" [] c = "A" -> "a"
      [] c = "T" -> "t" [] c = "Y" -> "y" [] c = "E" -> "e"
      [] OTHER -> c

\* (\d+(\.\d*)?|\.\d+)([eE][+-]?\d+)?
FloatNum ==
    Cat(<<Alt(<<Cat(<<Plus(D), Opt(Cat(<<Dot, Star(D)>>))>>), Cat(<<Dot, Plus(D)>>)>>),
          Opt(Cat(<<Cls({"e", "E"}), Opt(Cls({"+", "-"})), Plus(D)>>))>>)

\* Largest decimal exponent of a finite float.
MaxExp10 == 308

\* mantissa * 10^exponent in grid units, or inf past the range of a float
Scaled(mu, ex, exn) ==
    IF ex # <<>> /\ ex[1] = "-" THEN Fin(mu \div Pow10(exn))
    ELSE IF mu = 0 THEN Fin(0)
    ELSE IF exn > MaxExp10 THEN Inf
    ELSE Fin(mu * Pow10(exn))

\* float of mantissa[e exponent]
FloatDecimal(body, e) ==
    IF e = 0 THEN Fin(DecimalToUnits(body))
    ELSE Scaled(DecimalToUnits(SubSeq(body, 1, e - 1)), SubSeq(body, e + 1, Len(body)),
                DigitsToInt(LStrip(SubSeq(body, e + 1, Len(body)), {"+", "-"})))

\* float of an unsigned literal: inf, infinity, nan or a decimal
FloatUnsigned(body, low) ==
    IF low \in {<<"i", "n", "f">>, <<"i", "n", "f", "i", "n", "i", "t", "y">>} THEN Inf
    ELSE IF low = <<"n", "a", "n">> THEN NaN
    ELSE IF ~Matches(FloatNum, body) THEN Raise
    ELSE FloatDecimal(body, Find(low, {"e"}))

Negate(a) == IF a.k \in {"fin", "inf"} THEN [a EXCEPT !.v = -a.v] ELSE a

FloatSigned(t) ==
    IF t # <<>> /\ t[1] = "-" THEN Negate(FloatUnsigned(Tail(t), [i \in 1..(Len(t) - 1) |-> Lower(t[i + 1])]))
    ELSE IF t # <<>> /\ t[1] = "+" THEN FloatUnsigned(Tail(t), [i \in 1..(Len(t) - 1) |-> Lower(t[i + 1])])
    ELSE FloatUnsigned(t, [i \in 1..Len(t) |-> Lower(t[i])])

\* float(raw): sign, inf/infinity/nan, decimal with exponent; ValueError otherwise
PyFloat(raw) == FloatSigned(Strip(raw))

\* ^\s*(?:(\d+)m)?(\d+(?:\.\d+)?)s?\s*$
url_t == Cat(<<S0, Opt(Cat(<<Plus(D), LitI(<<"m">>)>>)), Num, Opt(LitI(<<"s">>)), S0>>)

\* group 1 of url_t: the minutes, <<>> when the group is not set
UrlMinutes(raw) == Group(S0, Plus(D), Cat(<<LitI(<<"m">>), Num, Opt(LitI(<<"s">>)), S0>>), raw)
\* group 2 of url_t: the seconds
UrlSeconds(raw) == Group(Cat(<<S0, Opt(Cat(<<Plus(D), LitI(<<"m">>)>>))>>), Num, Cat(<<Opt(LitI(<<"s">>)), S0>>), raw)

\* (int(mm) * 60 if mm else 0) + float(ss), or float(raw) when url_t does not match
ParseT(raw) ==
    IF Matches(url_t, raw)
    THEN Fin((IF UrlMinutes(raw) # <<>> THEN DigitsToInt(UrlMinutes(raw)) * 60 * Scale ELSE 0)
             + DecimalToUnits(UrlSeconds(raw)))
    ELSE PyFloat(raw)

\* q.get("t") or q.get("start")
TValues(qs) ==
    IF QueryValues(qs, <<"t">>) # <<>> THEN QueryValues(qs, <<"t">>)
    ELSE QueryValues(qs, <<"s", "t", "a", "r", "t">>)

FromValues(tvals) == IF tvals = <<>> THEN None ELSE ParseT(tvals[1])

FromQuery(q) == IF q.k = "raise" THEN Raise ELSE FromValues(TValues(q.s))

\* The body of the try block of extract_t_from_url.
extract_t_body(u) == FromQuery(UrlQuery(u))

\* extract_t_from_url without the except clause
extract_t_from_url_uncaught(u) == extract_t_body(u)

\* try: ... except Exception: return None
ExceptNone(r) == IF r.k = "raise" THEN None ELSE r

extract_t_from_url(u) == ExceptNone(extract_t_body(u))

(* ------------------------------- inputs ------------------------------- *)

NoStart == [some |-> FALSE, s |-> <<>>]
Some(s) == [some |-> TRUE, s |-> s]

Watch == <<"h", "t", "t", "p", "s", ":", "/", "/", "x", "/", "w", "a", "t", "c", "h", "?", "v", "=", "1">>

Urls ==
    { Watch,
      Watch \o <<"&", "t", "=", "8", "s">>,
      Watch \o <<"&", "t", "=", "3", "m", "0", "s">>,
      Watch \o <<"&", "s", "t", "a", "r", "t", "=", "7">>,
      Watch \o <<"&", "t", "=", "a", "b", "c">>,
      Watch \o <<"&", "t", "=", "-", "5">>,
      Watch \o <<"&", "t", "=", "i", "n", "f">>,
      <<"n", "o", "t", " ", "a", " ", "u", "r", "l">>,
      <<"h", "t", "t", "p", ":", "/", "/", "[", "x", "/", "w", "?", "t", "=", "5">> }

Starts ==
    { NoStart,
      Some(<<>>),
      Some(<<" ">>),
      Some(<<"n", "o">>),
      Some(<<"3", ":", "0", "0">>),
      Some(<<"9", ".", "4", "0">>),
      Some(<<"1", "8", "0">>),
      Some(<<"5", "9", ".", "9", "9", "9", "6">>) }

\* --step: 0, 0.1 (the default) and 0.0004 seconds
Steps == {Fin(0), Fin(Scale \div 10), Fin(4 * (Scale \div 10000))}

\* sorted(Path(".").glob("video.*")) orders the names as strings
FileNames == <<"video.mkv", "video.mp4", "video.webm">>
\* Files an earlier run may have left in the working directory.
StaleFiles == {"video.mkv", "video.webm"}
\* What one yt-dlp run can write under "video.%(ext)s"; "" for nothing.
Written == {"", "video.mp4", "video.webm"}

TsAlphabet == {"9", "4", "0", ".", ":", "m", "s", " "}

Notations ==
    { <<"3", ":", "0", "0">>,
      <<"0", "0", ":", "0", "3", ":", "0", "0">>,
      <<"3", "m", "0", "s">>,
      <<"3", " ", "m", "i", "n", " ", "0", " ", "s", "e", "c", "o", "n", "d", "s">>,
      <<"1", "8", "0">>,
      <<"1", "8", "0", "s">> }

TsInputs ==
    UNION {[1..n -> TsAlphabet] : n \in 0..MaxTsLen}
    \cup Notations
    \cup {<<"9", ".", "4", "0">>, <<"n", "o", "t", " ", "a", " ", "t", "i", "m", "e">>,
          <<"1", "2", ":", "3", "4", ":", "5", "6", ".", "7">>, <<" ", "7", ".", "5", " ", "S", " ">>,
          <<"2", " ", "M", "I", "N", " ", "5", " ", "S", "E", "C">>}

TimeInputs ==
    {Fin(0), Fin(180 * Scale), Fin(580 * Scale + Scale \div 2), Fin(3600 * Scale - 4)}
    \cup {Fin(60 * Scale - 2 * d) : d \in 0..MaxTimeSpread}

(* ---------------------------- the run of main ------------------------- *)

\* One run(cmd): rc is the exit status, -1 when the program could not be started
\* (FileNotFoundError); file is the file yt-dlp wrote or ffmpeg was given.
Call(cmd, file, ts, rc) == [cmd |-> cmd, file |-> file, ts |-> ts, rc |-> rc]

Abort(e) ==
    /\ pc' = "exit"
    /\ err' = e

Init ==
    /\ pc = "ensure_tools"
    /\ url \in Urls
    /\ start \in Starts
    /\ count \in (-1)..MaxCount
    /\ step \in Steps
    /\ outdir \in BOOLEAN
    /\ base_seconds = None
    /\ cwd \in SUBSET StaleFiles
    /\ downloaded = ""
    /\ video_file = ""
    /\ calls = <<>>
    /\ idx = 0
    /\ err = ""
    /\ fn_arg = [f |-> "", ts |-> <<>>, x |-> None]
    /\ fn_ret = [ts |-> Str(<<>>), x |-> None]

\* ensure_tools(): run each tool's version command; o says what happens
EnsureTools(o) ==
    /\ pc = "ensure_tools"
    /\ CASE o = "ok" ->
              /\ calls' = calls \o <<Call("yt-dlp --version", "", <<>>, 0), Call("ffmpeg -version", "", <<>>, 0)>>
              /\ pc' = "resolve"
              /\ err' = err
         [] o = "no yt-dlp" ->
              /\ calls' = calls \o <<Call("yt-dlp --version", "", <<>>, -1)>>
              /\ Abort("SystemExit")
         [] o = "yt-dlp fails" ->
              /\ calls' = calls \o <<Call("yt-dlp --version", "", <<>>, 1)>>
              /\ Abort("CalledProcessError")
         [] o = "no ffmpeg" ->
              /\ calls' = calls \o <<Call("yt-dlp --version", "", <<>>, 0), Call("ffmpeg -version", "", <<>>, -1)>>
              /\ Abort("SystemExit")
         [] o = "ffmpeg fails" ->
              /\ calls' = calls \o <<Call("yt-dlp --version", "", <<>>, 0), Call("ffmpeg -version", "", <<>>, 1)>>
              /\ Abort("CalledProcessError")
    /\ UNCHANGED <<url, start, count, step, outdir, base_seconds, cwd, downloaded, video_file, idx, fn_arg, fn_ret>>

\* if args.start: a str is true unless it is empty
Truthy(a) == a.some /\ a.s # <<>>

\* Resolve base time (seconds)
ResolveBase ==
    /\ pc = "resolve"
    /\ LET r == IF Truthy(start) THEN hhmmss_to_seconds(start.s) ELSE extract_t_from_url(url)
       IN  IF r.k = "raise"
           THEN /\ Abort("ValueError")
                /\ base_seconds' = base_seconds
           ELSE /\ base_seconds' = IF r.k = "none" THEN Fin(0) ELSE r
                /\ pc' = "outdir"
                /\ err' = err
    /\ UNCHANGED <<url, start, count, step, outdir, cwd, downloaded, video_file, calls, idx, fn_arg, fn_ret>>

\* Output directory: get_video_title() unless --outdir, then mkdir ("title fails"
\* stands for every way run() can raise there)
OutputDir(o) ==
    /\ pc = "outdir"
    /\ CASE o = "ok" ->
              /\ calls' = IF outdir THEN calls ELSE Append(calls, Call("yt-dlp --get-title", "", <<>>, 0))
              /\ pc' = "download"
              /\ err' = err
         [] o = "title fails" ->
              /\ ~outdir
              /\ calls' = Append(calls, Call("yt-dlp --get-title", "", <<>>, 1))
              /\ Abort("CalledProcessError")
         [] o = "mkdir fails" ->
              /\ calls' = IF outdir THEN calls ELSE Append(calls, Call("yt-dlp --get-title", "", <<>>, 0))
              /\ Abort("OSError")
    /\ UNCHANGED <<url, start, count, step, outdir, base_seconds, cwd, downloaded, video_file, idx, fn_arg, fn_ret>>

Put(f) == IF f = "" THEN cwd ELSE cwd \cup {f}

\* download_video without the download: the files at hand are used as they are
DownloadVideoOnly_skipped(o, f) ==
    /\ pc = "download"
    /\ o = "ok"
    /\ f = ""
    /\ pc' = "find"
    /\ UNCHANGED <<url, start, count, step, outdir, base_seconds, cwd, downloaded, video_file, calls, idx, err, fn_arg, fn_ret>>

\* download_video, 1) best video-only: exit status o, file f written (--no-part
\* writes the output file directly, so a failed run can leave one)
DownloadVideoOnly(o, f) ==
    /\ pc = "download"
    /\ CASE o = "ok" ->
              /\ calls' = Append(calls, Call("yt-dlp -f bestvideo", f, <<>>, 0))
              /\ cwd' = Put(f)
              /\ downloaded' = f
              /\ pc' = "find"
              /\ err' = err
         [] o = "nonzero" ->
              /\ calls' = Append(calls, Call("yt-dlp -f bestvideo", f, <<>>, 1))
              /\ cwd' = Put(f)
              /\ downloaded' = downloaded
              /\ pc' = "fallback"
              /\ err' = err
         [] o = "oserror" ->
              /\ f = ""
              /\ calls' = Append(calls, Call("yt-dlp -f bestvideo", f, <<>>, -1))
              /\ cwd' = cwd
              /\ downloaded' = downloaded
              /\ Abort("FileNotFoundError")
    /\ UNCHANGED <<url, start, count, step, outdir, base_seconds, video_file, idx, fn_arg, fn_ret>>

\* the fallback with its exit status ignored
DownloadFallback_unchecked(o, f) ==
    /\ pc = "fallback"
    /\ o \in {"ok", "nonzero"}
    /\ calls' = Append(calls, Call("yt-dlp -f bestvideo*+bestaudio/best", f, <<>>, IF o = "ok" THEN 0 ELSE 1))
    /\ cwd' = Put(f)
    /\ downloaded' = IF o = "ok" THEN f ELSE downloaded
    /\ pc' = "find"
    /\ UNCHANGED <<url, start, count, step, outdir, base_seconds, video_file, idx, err, fn_arg, fn_ret>>

\* download_video, 2) fallback: merged best video+audio; its failure propagates
DownloadFallback(o, f) ==
    /\ pc = "fallback"
    /\ CASE o = "ok" ->
              /\ calls' = Append(calls, Call("yt-dlp -f bestvideo*+bestaudio/best", f, <<>>, 0))
              /\ cwd' = Put(f)
              /\ downloaded' = f
              /\ pc' = "find"
              /\ err' = err
         [] o = "nonzero" ->
              /\ calls' = Append(calls, Call("yt-dlp -f bestvideo*+bestaudio/best", f, <<>>, 1))
              /\ cwd' = Put(f)
              /\ downloaded' = downloaded
              /\ Abort("CalledProcessError")
         [] o = "oserror" ->
              /\ f = ""
              /\ calls' = Append(calls, Call("yt-dlp -f bestvideo*+bestaudio/best", f, <<>>, -1))
              /\ cwd' = cwd
              /\ downloaded' = downloaded
              /\ Abort("FileNotFoundError")
    /\ UNCHANGED <<url, start, count, step, outdir, base_seconds, video_file, idx, fn_arg, fn_ret>>

\* sorted(...)[0]: the name of dir that comes first
First(dir) == FileNames[CHOOSE i \in 1..Len(FileNames) : FileNames[i] \in dir /\ \A j \in 1..(i - 1) : FileNames[j] \notin dir]

\* download_video: find the resulting file
FindResult ==
    /\ pc = "find"
    /\ IF cwd = {}
       THEN /\ Abort("SystemExit")
            /\ video_file' = video_file
       ELSE /\ video_file' = First(cwd)
            /\ pc' = "announce"
            /\ err' = err
    /\ UNCHANGED <<url, start, count, step, outdir, base_seconds, cwd, downloaded, calls, idx, fn_arg, fn_ret>>

\* Generate timestamps; print(... seconds_to_hhmmss_ms(base_seconds) ...)
Announce ==
    /\ pc = "announce"
    /\ IF seconds_to_hhmmss_ms(base_seconds).k = "raise"
       THEN Abort(IF base_seconds.k = "inf" THEN "OverflowError" ELSE "ValueError")
       ELSE /\ pc' = "frames"
            /\ err' = err
    /\ UNCHANGED <<url, start, count, step, outdir, base_seconds, cwd, downloaded, video_file, calls, idx, fn_arg, fn_ret>>

\* len(increments): range(args.count) is empty for a count below 1
NumTimestamps == IF count > 0 THEN count ELSE 0

\* the time of frame i: base_seconds + i * args.step
FrameTime(i) == FAdd(base_seconds, FMulInt(i, step))

\* Extract frames: one pass of the loop, ffmpeg exiting with status o
GrabFrame(o) ==
    /\ pc = "frames"
    /\ idx < count
    /\ LET ts == seconds_to_hhmmss_ms(FrameTime(idx))
       IN  CASE ts.k = "raise" ->
                  /\ calls' = calls
                  /\ idx' = idx
                  /\ Abort("ValueError")
             [] ts.k # "raise" /\ o = "ok" ->
                  /\ calls' = Append(calls, Call("ffmpeg -ss", video_file, ts.s, 0))
                  /\ idx' = idx + 1
                  /\ pc' = pc
                  /\ err' = err
             [] ts.k # "raise" /\ o = "nonzero" ->
                  /\ calls' = Append(calls, Call("ffmpeg -ss", video_file, ts.s, 1))
                  /\ idx' = idx
                  /\ Abort("CalledProcessError")
             [] ts.k # "raise" /\ o = "oserror" ->
                  /\ calls' = Append(calls, Call("ffmpeg -ss", video_file, ts.s, -1))
                  /\ idx' = idx
                  /\ Abort("FileNotFoundError")
    /\ UNCHANGED <<url, start, count, step, outdir, base_seconds, cwd, downloaded, video_file, fn_arg, fn_ret>>

\* the loop is over: print("Done. ...")
Finish ==
    /\ pc = "frames"
    /\ idx >= count
    /\ pc' = "done"
    /\ UNCHANGED <<url, start, count, step, outdir, base_seconds, cwd, downloaded, video_file, calls, idx, err, fn_arg, fn_ret>>

StepEnsureTools == \E o \in {"ok", "no yt-dlp", "yt-dlp fails", "no ffmpeg", "ffmpeg fails"} : EnsureTools(o)
StepOutputDir == \E o \in {"ok", "title fails", "mkdir fails"} : OutputDir(o)
StepDownloadVideoOnly == \E o \in {"ok", "nonzero", "oserror"}, f \in Written : DownloadVideoOnly(o, f)
StepDownloadFallback == \E o \in {"ok", "nonzero", "oserror"}, f \in Written : DownloadFallback(o, f)
StepGrabFrame == \E o \in {"ok", "nonzero", "oserror"} : GrabFrame(o)

Next ==
    \/ StepEnsureTools
    \/ ResolveBase
    \/ StepOutputDir
    \/ StepDownloadVideoOnly
    \/ StepDownloadFallback
    \/ FindResult
    \/ Announce
    \/ StepGrabFrame
    \/ Finish

Spec == Init /\ [][Next]_vars

(* ------------------- the functions called on their own ---------------- *)

FnInit ==
    /\ pc = "fn_call"
    /\ url = <<>>
    /\ start = NoStart
    /\ count = 0
    /\ step = Fin(0)
    /\ outdir = FALSE
    /\ base_seconds = None
    /\ cwd = {}
    /\ downloaded = ""
    /\ video_file = ""
    /\ calls = <<>>
    /\ idx = 0
    /\ err = ""
    /\ fn_arg \in {[f |-> "hhmmss_to_seconds", ts |-> s, x |-> None] : s \in TsInputs}
                  \cup {[f |-> "seconds_to_hhmmss_ms", ts |-> <<>>, x |-> t] : t \in TimeInputs}
    /\ fn_ret = [ts |-> Str(<<>>), x |-> None]

FnRest == <<url, start, count, step, outdir, base_seconds, cwd, downloaded, video_file, calls, idx, err, fn_arg>>

\* hhmmss_to_seconds(ts)
CallParse ==
    /\ pc = "fn_call"
    /\ fn_arg.f = "hhmmss_to_seconds"
    /\ fn_ret' = [fn_ret EXCEPT !.x = hhmmss_to_seconds(fn_arg.ts)]
    /\ pc' = "fn_done"
    /\ UNCHANGED FnRest

\* seconds_to_hhmmss_ms(x)
CallRender ==
    /\ pc = "fn_call"
    /\ fn_arg.f = "seconds_to_hhmmss_ms"
    /\ fn_ret' = [fn_ret EXCEPT !.ts = seconds_to_hhmmss_ms(fn_arg.x)]
    /\ pc' = "fn_rendered"
    /\ UNCHANGED FnRest

\* hhmmss_to_seconds of the string just rendered
CallReparse ==
    /\ pc = "fn_rendered"
    /\ fn_ret' = [fn_ret EXCEPT !.x = hhmmss_to_seconds(fn_ret.ts.s)]
    /\ pc' = "fn_done"
    /\ UNCHANGED FnRest

FnNext ==
    \/ CallParse
    \/ CallRender
    \/ CallReparse

SpecFn == FnInit /\ [][FnNext]_vars

(* ------------------------------ properties ---------------------------- *)

IsGrab(c) == c.cmd = "ffmpeg -ss"
IsDownload(c) == c.cmd \in {"yt-dlp -f bestvideo", "yt-dlp -f bestvideo*+bestaudio/best"}
IsYtDlp(c) == IsDownload(c) \/ c.cmd \in {"yt-dlp --version", "yt-dlp --get-title"}
Grabs == SelectSeq(calls, IsGrab)
VideoOnly == {i \in 1..Len(calls) : calls[i].cmd = "yt-dlp -f bestvideo"}
Merged == {i \in 1..Len(calls) : calls[i].cmd = "yt-dlp -f bestvideo*+bestaudio/best"}
Canonical(x) == x.k = "fin" /\ x.v >= 0
Abs(n) == IF n < 0 THEN -n ELSE n
\* The time a rendered string H:M:S[.f] denotes.
SeekTime(ts) == ClockValue(ts).v

\* C1: with an explicit --start the resolved base_seconds is
\* hhmmss_to_seconds(start) and the URL time is not used; without one it is
\* extract_t_from_url(url) when that is not None, and 0 otherwise.
C1_BaseTimeResolution ==
    base_seconds # None =>
        IF start.some
        THEN base_seconds = hhmmss_to_seconds(start.s)
        ELSE base_seconds = (IF extract_t_from_url(url) # None THEN extract_t_from_url(url) ELSE Fin(0))

\* C2: a --start string that matches none of the five forms (the empty string
\* included) aborts the run before the base is resolved and before any
\* download_video or grab_frame call.
C2_InvalidStartAborts ==
    (start.some /\ hhmmss_to_seconds(start.s) = Raise) =>
        /\ base_seconds = None
        /\ \A i \in 1..Len(calls) : ~IsDownload(calls[i]) /\ ~IsGrab(calls[i])

\* C3: a run whose external calls all succeed, from a canonical base b, extracts
\* exactly count frames, the i-th seeking to b + i * step (within the rendering
\* tolerance of half a millisecond), the seek times strictly increasing when
\* step > 0 and all equal when step = 0.
C3_BurstSequencing ==
    (pc = "done" /\ Canonical(base_seconds) /\ count >= 0) =>
        /\ Len(Grabs) = count
        /\ \A i \in 1..Len(Grabs) : 2 * Abs(SeekTime(Grabs[i].ts) - FrameTime(i - 1).v) <= UnitsPerMs
        /\ \A i \in 1..(Len(Grabs) - 1) :
              IF step.v > 0 THEN SeekTime(Grabs[i].ts) < SeekTime(Grabs[i + 1].ts)
              ELSE SeekTime(Grabs[i].ts) = SeekTime(Grabs[i + 1].ts)

TsForms == <<ts_hms, ts_ms, ts_suff, ts_plain, ts_dot_m_s>>
\* The value form n gives to ts.
FormValue(n, ts) ==
    CASE n = 1 -> ClockValue(ts) [] n = 2 -> VerboseValue(ts) [] n = 3 -> SuffixValue(ts)
      [] n = 4 -> PlainValue(ts) [] n = 5 -> DotValue(ts)
\* The forms ts matches, by their place in the priority order.
FormsOf(ts) == {n \in 1..Len(TsForms) : Matches(TsForms[n], Strip(ts))}

C5_RenderParseRoundTrip ==
    (pc = "fn_done" /\ fn_arg.f = "seconds_to_hhmmss_ms") =>
        /\ Matches(ts_hms, fn_ret.ts.s)
        /\ fn_ret.x.k = "fin"
        /\ 2 * Abs(fn_ret.x.v - fn_arg.x.v) <= UnitsPerMs
        /\ fn_arg.x.v % UnitsPerMs = 0 => fn_ret.x = fn_arg.x
        /\ Len(Split(fn_ret.ts.s, ":")) = 3
        /\ DigitsToInt(Split(fn_ret.ts.s, ":")[2]) < 60
        /\ DecimalToUnits(Split(fn_ret.ts.s, ":")[3]) < 60 * Scale

\* C6: every base_seconds main resolves, and so every time handed to the frame
\* extractor, is finite and >= 0, whatever the t/start value of the URL is.
C6_CanonicalTime ==
    /\ base_seconds # None => Canonical(base_seconds)
    /\ idx > 0 => Canonical(FrameTime(idx - 1))

\* C7: extract_t_from_url never raises, whatever the URL of the run is; with no
\* explicit start the run never ends in base-time resolution and goes on to the
\* download, and when the URL gives no time the base is 0.
C7_UrlExtractionNeverAborts ==
    /\ pc \in {"ensure_tools", "resolve"} => extract_t_from_url(url).k # "raise"
    /\ ~start.some =>
          /\ (pc = "exit" /\ base_seconds = None) => err \in {"SystemExit", "CalledProcessError"}
          /\ pc \notin {"ensure_tools", "resolve", "exit"} => base_seconds # None
          /\ (base_seconds # None /\ base_seconds # Fin(0)) => extract_t_from_url(url) = base_seconds

C7_Witness ==
    /\ ~start.some
    /\ extract_t_body(url) = Raise
    /\ extract_t_from_url(url) = None
    /\ base_seconds = Fin(0)
    /\ pc = "done"
    /\ Len(Grabs) = count
    /\ count > 0

C9_SingleLinearFallback ==
    /\ Cardinality(Merged) <= 1
    /\ Cardinality(VideoOnly) <= 1
    /\ \A j \in Merged : \E i \in VideoOnly : i < j /\ calls[i].rc > 0
    /\ \A i \in VideoOnly : calls[i].rc > 0 => (pc = "fallback" \/ Merged # {})
    /\ \A i \in VideoOnly : calls[i].rc <= 0 => (Merged = {} /\ pc # "fallback")
    /\ \A j \in Merged : calls[j].rc # 0 => (pc = "exit" /\ err # "" /\ Grabs = <<>>)

C9_Witness ==
    /\ \E i \in VideoOnly : calls[i].rc = 1
    /\ \E j \in Merged : calls[j].rc = 1
    /\ pc = "exit"
    /\ err = "CalledProcessError"
    /\ Grabs = <<>>

\* C10: every grab_frame call gets the file this run's successful download
\* wrote, whatever video.* files the working directory held before.
C10_FreshVideoFile ==
    \A i \in 1..Len(calls) : IsGrab(calls[i]) => (downloaded # "" /\ calls[i].file = downloaded)

====
